---- MODULE Spec2Model ----
(***************************************************************************)
(* compass-core: serialized destructive lifecycle actions                  *)
(* (compass/actions/delete.py) over the cluster / host / clusterhost       *)
(* store (compass/db/api/cluster.py).                                      *)
(*                                                                         *)
(* Every orchestration action runs as its own worker.  Each database api   *)
(* call of an action is one atomic step (one database session); the only   *)
(* blocking points are util.lock and DeployManager.remove_hosts.           *)
(***************************************************************************)
EXTENDS Integers, Sequences, FiniteSets, TLC

\* ------------------------------------------------------------------ bounds
NumWorkers == 2
MaxCalls == 2

\* ------------------------------------------------------------ the universe
Workers == 1..NumWorkers
Clusters == {"c1", "c2"}
Hosts == {"h1", "h2"}
Users == {"admin", "user"}
StateEnum == {"UNINITIALIZED", "INSTALLING", "SUCCESSFUL", "ERROR"}

\* host_id_list / cluster_id_list arguments the callers may pass
HostLists == {<<>>, <<"h1">>, <<"h2">>, <<"h1", "h2">>, <<"h2", "h1">>}
ClusterLists == {<<>>, <<"c1">>, <<"c2">>, <<"c1", "c2">>}

\* memberships created by the CRUD layer before the actions run:
\* c1 = {h1, h2}, c2 = {h2}  (h2 is shared by both clusters)
InitMembers == {<<"c1", "h1">>, <<"c1", "h2">>, <<"c2", "h2">>}

Range(s) == {s[i] : i \in 1..Len(s)}

\* ------------------------------------------------------------------- rows
NoCluster == [exists |-> FALSE, state |-> "UNINITIALIZED",
              reinstall_distributed_system |-> FALSE, creator_id |-> "admin"]
NoHost == [exists |-> FALSE, state |-> "UNINITIALIZED",
           reinstall_os |-> FALSE, creator_id |-> "admin"]
NoClusterHost == [exists |-> FALSE, state |-> "UNINITIALIZED"]

\* user_db.get_user_object: the principal of a username
get_user_object(username) == [id |-> username, is_admin |-> (username = "admin")]

Ok(d) == [db |-> d, err |-> "none"]
Err(d, e) == [db |-> d, err |-> e]

\* --------------------------------------------------- the Editability Guard
\* _conditional_exception with its test inverted
_conditional_exception_swapped(exception_when_not_editable) ==
    IF exception_when_not_editable THEN "False" ELSE "Forbidden"

_conditional_exception(exception_when_not_editable) ==
    IF exception_when_not_editable THEN "Forbidden" ELSE "False"

\* is_cluster_editable with "if" for its "elif": the flag is tested for both intents
is_cluster_editable_if(cluster, user, reinstall_distributed_system_set, exception_when_not_editable) ==
    IF reinstall_distributed_system_set /\ cluster.state = "INSTALLING"
    THEN _conditional_exception(exception_when_not_editable)
    ELSE IF ~cluster.reinstall_distributed_system
    THEN _conditional_exception(exception_when_not_editable)
    ELSE IF ~user.is_admin /\ cluster.creator_id # user.id
    THEN _conditional_exception(exception_when_not_editable)
    ELSE "True"

is_cluster_editable(cluster, user, reinstall_distributed_system_set, exception_when_not_editable) ==
    LET owner_check ==
            IF ~user.is_admin /\ cluster.creator_id # user.id
            THEN _conditional_exception(exception_when_not_editable)
            ELSE "True"
    IN  IF reinstall_distributed_system_set
        THEN IF cluster.state = "INSTALLING"
             THEN _conditional_exception(exception_when_not_editable)
             ELSE owner_check
        ELSE IF ~cluster.reinstall_distributed_system
             THEN _conditional_exception(exception_when_not_editable)
             ELSE owner_check

\* ------------------------------------------------ store operations (cluster)
\* cluster_api.update_cluster(updater, cluster_id, reinstall_distributed_system=v)
update_cluster(d, updater, cluster_id, v) ==
    IF ~d.cluster[cluster_id].exists THEN Err(d, "NotFound")
    ELSE IF is_cluster_editable(d.cluster[cluster_id], updater, v, TRUE) # "True"
    THEN Err(d, "NotEditable")
    ELSE Ok([d EXCEPT !.cluster[cluster_id].reinstall_distributed_system = v])

\* cluster_api.del_cluster(deleter, cluster_id)
del_cluster(d, deleter, cluster_id) ==
    IF ~d.cluster[cluster_id].exists THEN Err(d, "NotFound")
    ELSE IF is_cluster_editable(d.cluster[cluster_id], deleter, FALSE, TRUE) # "True"
    THEN Err(d, "NotEditable")
    ELSE Ok([d EXCEPT !.cluster[cluster_id] = NoCluster])

\* _remove_clusterhosts that returns out of its loop after the first host
_remove_clusterhosts_first(d, cluster_id, hosts) ==
    IF hosts = <<>> THEN d
    ELSE [d EXCEPT !.clusterhost[<<cluster_id, hosts[1]>>] = NoClusterHost]

\* cluster_api._remove_clusterhosts(session, cluster, hosts)
_remove_clusterhosts(d, cluster_id, hosts) ==
    [d EXCEPT !.clusterhost =
        [ch \in Clusters \X Hosts |->
            IF ch[1] = cluster_id /\ ch[2] \in Range(hosts)
            THEN NoClusterHost ELSE d.clusterhost[ch]]]

\* cluster_api.update_cluster_host_state(user, cluster_id, host_id, state=s)
update_cluster_host_state(d, cluster_id, host_id, s) ==
    IF ~d.clusterhost[<<cluster_id, host_id>>].exists THEN Err(d, "NotFound")
    ELSE Ok([d EXCEPT !.clusterhost[<<cluster_id, host_id>>].state = s])

\* host_api.update_host_state(user, host_id, state=s)
update_host_state(d, host_id, s) ==
    IF ~d.host[host_id].exists THEN Err(d, "NotFound")
    ELSE Ok([d EXCEPT !.host[host_id].state = s])

\* cluster_api.update_cluster_state(user, cluster_id, state=s)
update_cluster_state(d, cluster_id, s) ==
    IF ~d.cluster[cluster_id].exists THEN Err(d, "NotFound")
    ELSE Ok([d EXCEPT !.cluster[cluster_id].state = s])

\* cluster_api.update_cluster_host(user, cluster_id, host_id, reinstall_os=v)
update_cluster_host(d, cluster_id, host_id, v) ==
    IF ~d.clusterhost[<<cluster_id, host_id>>].exists \/ ~d.host[host_id].exists
    THEN Err(d, "NotFound")
    ELSE Ok([d EXCEPT !.host[host_id].reinstall_os = v])

\* util.ActionHelper.get_cluster_info / get_adapter_info / get_hosts_info:
\* the snapshot handed to DeployManager; reads only
get_info(d, cluster_id, hosts) ==
    IF ~d.cluster[cluster_id].exists THEN "NotFound"
    ELSE IF \E h \in Range(hosts) :
              ~d.clusterhost[<<cluster_id, h>>].exists \/ ~d.host[h].exists
    THEN "NotFound"
    ELSE "none"

\* host rows dropped by the terminal deletions
del_hosts(d, hosts) ==
    [d EXCEPT !.host = [h \in Hosts |-> IF h \in Range(hosts) THEN NoHost ELSE d.host[h]]]

HostsOf(d, cluster_id) == {h \in Hosts : d.clusterhost[<<cluster_id, h>>].exists}

\* util.ActionHelper.delete_cluster(cluster_id, host_id_list, user, delete_underlying_host)
ActionHelper_delete_cluster(d, cluster_id, host_id_list, user, delete_underlying_host) ==
    LET d1 == _remove_clusterhosts(d, cluster_id, host_id_list)
        d2 == IF delete_underlying_host THEN del_hosts(d1, host_id_list) ELSE d1
    IN  IF HostsOf(d2, cluster_id) = {} THEN del_cluster(d2, user, cluster_id)
        ELSE Ok(d2)

\* util.ActionHelper.delete_cluster_host(cluster_id, host_id, user, delete_underlying_host)
ActionHelper_delete_cluster_host(d, cluster_id, host_id, user, delete_underlying_host) ==
    LET d1 == _remove_clusterhosts(d, cluster_id, <<host_id>>)
    IN  Ok(IF delete_underlying_host THEN del_hosts(d1, <<host_id>>) ELSE d1)

\* util.ActionHelper.delete_host(host_id, user)
ActionHelper_delete_host(d, host_id, user) ==
    IF ~d.host[host_id].exists THEN Err(d, "NotFound")
    ELSE Ok(del_hosts(d, <<host_id>>))

\* ------------------------------------------------------------------ state
VARIABLES
    db,        \* the entity store: cluster, host and clusterhost rows
    lock,      \* holder of lock 'serialized_action' (0: free)
    pc,        \* where each worker is in its action
    args,      \* the arguments of each worker's call
    idx,       \* position of each worker's for loop
    handle,    \* what util.lock yielded to each worker (FALSE: None)
    result,    \* how the call of a worker that is leaving its with block ended
    calls,     \* remove_hosts calls issued by each worker's current call
    entry,     \* the store when the worker's with block was entered
    first,     \* the failed delete_cluster that the worker's call retries
    ncalls,    \* number of calls made so far
    guard      \* a call of is_cluster_editable on its own: arguments and outcome

vars == <<db, lock, pc, args, idx, handle, result, calls, entry, first, ncalls, guard>>

NoArgs == [kind |-> "none", cluster_id |-> "c1", host_id |-> "h1",
           host_id_list |-> <<>>, cluster_id_list |-> <<>>,
           username |-> "admin", delete_underlying_host |-> FALSE]
NoSnap == [taken |-> FALSE]
NoFirst == [taken |-> FALSE]

Snap(d) == [taken |-> TRUE, db |-> d]

\* the rows the CRUD layer has created: cluster c1 belongs to the plain user,
\* c2 to the admin; the rows of one store are in different lifecycle states
Row(s) == [exists |-> TRUE, state |-> s]

InitDb(sc, sh) ==
    [cluster |-> [c \in Clusters |->
        [exists |-> TRUE, state |-> sc[c],
         reinstall_distributed_system |-> (sc[c] = "ERROR"),
         creator_id |-> IF c = "c1" THEN "user" ELSE "admin"]],
     host |-> [h \in Hosts |->
        [exists |-> TRUE, state |-> sh[h], reinstall_os |-> (sh[h] = "ERROR"),
         creator_id |-> "user"]],
     clusterhost |-> [ch \in Clusters \X Hosts |->
        IF ch \in InitMembers THEN Row(sh[ch[2]]) ELSE NoClusterHost]]

InitStates ==
    {<<[c1 |-> "SUCCESSFUL", c2 |-> "INSTALLING"],
       [h1 |-> "SUCCESSFUL", h2 |-> "INSTALLING"]>>,
     <<[c1 |-> "UNINITIALIZED", c2 |-> "ERROR"],
       [h1 |-> "ERROR", h2 |-> "UNINITIALIZED"]>>}

\* the arguments is_cluster_editable may be called with: a cluster row in any
\* state, with either flag value and creator, any user, either intent and mode
GuardInputs ==
    [cluster : {[exists |-> TRUE, state |-> s, reinstall_distributed_system |-> f,
                 creator_id |-> u] : s \in StateEnum, f \in BOOLEAN, u \in Users},
     user : {get_user_object(u) : u \in Users},
     reinstall_distributed_system_set : BOOLEAN,
     exception_when_not_editable : BOOLEAN,
     out : {"none"}]

\* no call of is_cluster_editable on its own is under way
NoGuard ==
    [cluster |-> NoCluster, user |-> get_user_object("admin"),
     reinstall_distributed_system_set |-> FALSE,
     exception_when_not_editable |-> TRUE, out |-> "idle"]

\* every worker is idle and the lock is free
Idle ==
    /\ lock = 0
    /\ pc = [p \in Workers |-> "idle"]
    /\ args = [p \in Workers |-> NoArgs]
    /\ idx = [p \in Workers |-> 0]
    /\ handle = [p \in Workers |-> FALSE]
    /\ result = [p \in Workers |-> "none"]
    /\ calls = [p \in Workers |-> <<>>]
    /\ entry = [p \in Workers |-> NoSnap]
    /\ first = [p \in Workers |-> NoFirst]
    /\ ncalls = 0

Init ==
    /\ \E s \in InitStates : db = InitDb(s[1], s[2])
    /\ guard = NoGuard
    /\ lock = 0
    /\ pc = [p \in Workers |-> "idle"]
    /\ args = [p \in Workers |-> NoArgs]
    /\ idx = [p \in Workers |-> 0]
    /\ handle = [p \in Workers |-> FALSE]
    /\ result = [p \in Workers |-> "none"]
    /\ calls = [p \in Workers |-> <<>>]
    /\ entry = [p \in Workers |-> NoSnap]
    /\ first = [p \in Workers |-> NoFirst]
    /\ ncalls = 0

\* ------------------------------------------------------------ invocations
\* the part of the state a store step of worker p leaves alone
Frame(p) == UNCHANGED <<lock, args, handle, calls, entry, first, ncalls, guard>>

\* an exception leaves the with block: the body is abandoned where it is
Raise(p, e) ==
    /\ pc' = [pc EXCEPT ![p] = "exit"]
    /\ result' = [result EXCEPT ![p] = e]

Goto(p, l) ==
    /\ pc' = [pc EXCEPT ![p] = l]
    /\ UNCHANGED result

\* the outcome r of a store call: raise its error, or write and go on to l
Apply(p, r, l) ==
    /\ db' = r.db
    /\ IF r.err # "none" THEN Raise(p, r.err) ELSE Goto(p, l)

LoopOr(list, i, inside, after) == IF i <= Len(list) THEN inside ELSE after

\* the arguments a caller may pass to each action
ArgSet(kind) ==
    CASE kind = "delete_cluster" ->
            {[NoArgs EXCEPT !.kind = kind, !.cluster_id = c, !.host_id_list = hl,
                            !.username = u, !.delete_underlying_host = duh] :
                c \in Clusters, hl \in HostLists, u \in Users, duh \in BOOLEAN}
      [] kind = "delete_cluster_host" ->
            {[NoArgs EXCEPT !.kind = kind, !.cluster_id = c, !.host_id = h,
                            !.username = u, !.delete_underlying_host = duh] :
                c \in Clusters, h \in Hosts, u \in Users, duh \in BOOLEAN}
      [] OTHER ->
            {[NoArgs EXCEPT !.kind = kind, !.host_id = h, !.cluster_id_list = cl,
                            !.username = u] :
                h \in Hosts, cl \in ClusterLists, u \in Users}

\* a caller starts an action on a free worker, which first waits in util.lock.
\* The arguments are not read before the body runs: their values are drawn there.
Call(p, kind) ==
    /\ pc[p] = "idle"
    /\ ncalls < MaxCalls
    /\ ncalls' = ncalls + 1
    /\ args' = [args EXCEPT ![p] = [NoArgs EXCEPT !.kind = kind]]
    /\ result' = [result EXCEPT ![p] = "none"]
    /\ pc' = [pc EXCEPT ![p] = "lock"]
    /\ UNCHANGED <<db, lock, idx, handle, calls, entry, first, guard>>

call_delete_cluster(p) == Call(p, "delete_cluster")

call_delete_cluster_host(p) == Call(p, "delete_cluster_host")

call_delete_host(p) == Call(p, "delete_host")

\* the first statement of each body, once the lock check has passed
BodyStart(a) ==
    CASE a.kind = "delete_cluster" ->
            LoopOr(a.host_id_list, 1, "update_cluster_host_state", "update_cluster_state")
      [] a.kind = "delete_cluster_host" -> "get_info"
      [] OTHER -> LoopOr(a.cluster_id_list, 1, "get_info", "delete")

\* CheckLock without its "if not lock: raise": the body runs whatever was yielded
CheckLockIgnored(p, lk) ==
    /\ handle' = [handle EXCEPT ![p] = lk]
    /\ \E a \in ArgSet(args[p].kind) :
            /\ args' = [args EXCEPT ![p] = a]
            /\ Goto(p, BodyStart(a))
            /\ entry' = [entry EXCEPT ![p] = Snap(db)]
    /\ idx' = [idx EXCEPT ![p] = 1]
    /\ UNCHANGED <<db, calls, first, ncalls, guard>>

\* with util.lock(...) as lock: if not lock: raise Exception('failed to acquire
\* lock ...'); otherwise the body starts, with the arguments a of the call
CheckLock(p, lk) ==
    /\ handle' = [handle EXCEPT ![p] = lk]
    /\ IF ~lk
       THEN /\ Raise(p, "LockNotAcquired")
            /\ UNCHANGED <<args, entry, first>>
       ELSE \E a \in (IF first[p].taken THEN {first[p].args}
                     ELSE ArgSet(args[p].kind)) :
            /\ args' = [args EXCEPT ![p] = a]
            /\ Goto(p, BodyStart(a))
            /\ entry' = [entry EXCEPT ![p] = Snap(db)]
            /\ first' = [first EXCEPT ![p] =
                    IF first[p].taken /\ first[p].after = db
                    THEN first[p] ELSE NoFirst]
    /\ idx' = [idx EXCEPT ![p] = 1]
    /\ UNCHANGED <<db, calls, ncalls, guard>>

\* ------------------------------------------------------------- util.lock
\* acquire('serialized_action', timeout=100) obtains the free lock and yields it
LockAcquire(p) ==
    /\ pc[p] = "lock"
    /\ lock = 0
    /\ lock' = p
    /\ CheckLock(p, TRUE)

\* acquire without a timeout: the worker goes on waiting while the lock is held
LockWaits(p) ==
    /\ pc[p] = "lock"
    /\ lock # 0
    /\ UNCHANGED vars

\* the timeout expires while another worker holds the lock: util.lock yields None
LockTimeout(p) ==
    /\ pc[p] = "lock"
    /\ lock # 0
    /\ UNCHANGED lock
    /\ CheckLock(p, FALSE)

\* Exit with the release on the normal path only, not in a finally
ExitNoFinally(p) ==
    /\ pc[p] = "exit"
    /\ lock' = IF handle[p] /\ result[p] = "ok" THEN 0 ELSE lock
    /\ handle' = [handle EXCEPT ![p] = FALSE]
    /\ pc' = [pc EXCEPT ![p] = "idle"]
    /\ idx' = [idx EXCEPT ![p] = 0]
    /\ calls' = [calls EXCEPT ![p] = <<>>]
    /\ entry' = [entry EXCEPT ![p] = NoSnap]
    /\ args' = [args EXCEPT ![p] = NoArgs]
    /\ first' = [first EXCEPT ![p] = NoFirst]
    /\ result' = [result EXCEPT ![p] = "none"]
    /\ UNCHANGED <<db, ncalls, guard>>

\* leaving the with block: the lock, if obtained, is released
Exit(p) ==
    /\ pc[p] = "exit"
    /\ lock' = IF handle[p] THEN 0 ELSE lock
    /\ handle' = [handle EXCEPT ![p] = FALSE]
    /\ pc' = [pc EXCEPT ![p] = "idle"]
    /\ idx' = [idx EXCEPT ![p] = 0]
    /\ calls' = [calls EXCEPT ![p] = <<>>]
    /\ entry' = [entry EXCEPT ![p] = NoSnap]
    /\ args' = [args EXCEPT ![p] = NoArgs]
    /\ first' = [first EXCEPT ![p] = NoFirst]
    /\ result' = [result EXCEPT ![p] = "none"]
    /\ UNCHANGED <<db, ncalls, guard>>

\* the caller of a delete_cluster that the backend failed calls it again at
\* once, with the same arguments
Retry(p) ==
    /\ pc[p] = "exit"
    /\ args[p].kind = "delete_cluster"
    /\ result[p] = "BackendFailure"
    /\ ncalls < MaxCalls
    /\ ncalls' = ncalls + 1
    /\ lock' = IF handle[p] THEN 0 ELSE lock
    /\ handle' = [handle EXCEPT ![p] = FALSE]
    /\ pc' = [pc EXCEPT ![p] = "lock"]
    /\ idx' = [idx EXCEPT ![p] = 0]
    /\ calls' = [calls EXCEPT ![p] = <<>>]
    /\ entry' = [entry EXCEPT ![p] = NoSnap]
    /\ first' = [first EXCEPT ![p] =
            [taken |-> TRUE, args |-> args[p],
             before |-> IF first[p].taken THEN first[p].before ELSE entry[p].db,
             after |-> db]]
    /\ result' = [result EXCEPT ![p] = "none"]
    /\ UNCHANGED <<db, args, guard>>

\* the body ran to its end
Return(p) ==
    /\ pc' = [pc EXCEPT ![p] = "exit"]
    /\ result' = [result EXCEPT ![p] = "ok"]

\* the outcome r of the last store call of a body
ApplyLast(p, r) ==
    /\ db' = r.db
    /\ IF r.err # "none" THEN Raise(p, r.err) ELSE Return(p)

At(p, kind, l) == pc[p] = l /\ args[p].kind = kind

\* DeployManager(adapter_info, cluster_info, hosts_info).remove_hosts(...) is
\* called with the snapshot of cluster c and hosts hl, unless the snapshot fails
IssueRemove(p, c, hl, package_only, delete_cluster) ==
    /\ IF get_info(db, c, hl) # "none"
       THEN /\ Raise(p, get_info(db, c, hl))
            /\ UNCHANGED calls
       ELSE /\ Goto(p, "remove_hosts")
            /\ calls' = [calls EXCEPT ![p] = Append(@,
                    [cluster_id |-> c, hosts |-> hl, package_only |-> package_only,
                     delete_cluster |-> delete_cluster, returned |-> FALSE])]
    /\ UNCHANGED <<db, lock, args, idx, handle, entry, first, ncalls, guard>>

\* the blocked remove_hosts call returns (ok) or raises
RemoveReturns(p, ok, next) ==
    /\ IF ok THEN /\ calls' = [calls EXCEPT ![p][Len(calls[p])].returned = TRUE]
                  /\ Goto(p, next)
       ELSE /\ Raise(p, "BackendFailure")
            /\ UNCHANGED calls
    /\ UNCHANGED <<db, lock, args, handle, entry, first, ncalls, guard>>

\* --------------------------------------------------------- delete_cluster
\* delete_cluster without its update_cluster_host_state(state='ERROR')
dc_update_cluster_host_state_skipped(p) ==
    /\ At(p, "delete_cluster", "update_cluster_host_state")
    /\ Goto(p, "update_host_state")
    /\ UNCHANGED <<db, idx>>
    /\ Frame(p)

dc_update_cluster_host_state(p) ==
    /\ At(p, "delete_cluster", "update_cluster_host_state")
    /\ Apply(p, update_cluster_host_state(db, args[p].cluster_id,
                    args[p].host_id_list[idx[p]], "ERROR"),
             "update_host_state")
    /\ UNCHANGED idx
    /\ Frame(p)

\* delete_cluster that goes on to the next host when update_host_state raises
dc_update_host_state_lenient(p) ==
    /\ At(p, "delete_cluster", "update_host_state")
    /\ db' = update_host_state(db, args[p].host_id_list[idx[p]], "ERROR").db
    /\ Goto(p, LoopOr(args[p].host_id_list, idx[p] + 1,
                      "update_cluster_host_state", "update_cluster_state"))
    /\ idx' = [idx EXCEPT ![p] = @ + 1]
    /\ Frame(p)

\* delete_cluster without its update_host_state(state='ERROR')
dc_update_host_state_skipped(p) ==
    /\ At(p, "delete_cluster", "update_host_state")
    /\ Goto(p, LoopOr(args[p].host_id_list, idx[p] + 1,
                      "update_cluster_host_state", "update_cluster_state"))
    /\ idx' = [idx EXCEPT ![p] = @ + 1]
    /\ UNCHANGED db
    /\ Frame(p)

dc_update_host_state(p) ==
    /\ At(p, "delete_cluster", "update_host_state")
    /\ Apply(p, update_host_state(db, args[p].host_id_list[idx[p]], "ERROR"),
             LoopOr(args[p].host_id_list, idx[p] + 1,
                    "update_cluster_host_state", "update_cluster_state"))
    /\ idx' = [idx EXCEPT ![p] = IF pc'[p] = "exit" THEN @ ELSE @ + 1]
    /\ Frame(p)

\* delete_cluster without its update_cluster_state(state='ERROR')
dc_update_cluster_state_skipped(p) ==
    /\ At(p, "delete_cluster", "update_cluster_state")
    /\ Goto(p, "update_cluster")
    /\ UNCHANGED <<db, idx>>
    /\ Frame(p)

dc_update_cluster_state(p) ==
    /\ At(p, "delete_cluster", "update_cluster_state")
    /\ Apply(p, update_cluster_state(db, args[p].cluster_id, "ERROR"),
             "update_cluster")
    /\ UNCHANGED idx
    /\ Frame(p)

\* delete_cluster without its update_cluster(reinstall_distributed_system=True)
dc_update_cluster_skipped(p) ==
    /\ At(p, "delete_cluster", "update_cluster")
    /\ Goto(p, LoopOr(args[p].host_id_list, 1, "update_cluster_host", "get_info"))
    /\ idx' = [idx EXCEPT ![p] = 1]
    /\ UNCHANGED db
    /\ Frame(p)

dc_update_cluster(p) ==
    /\ At(p, "delete_cluster", "update_cluster")
    /\ Apply(p, update_cluster(db, get_user_object(args[p].username),
                               args[p].cluster_id, TRUE),
             LoopOr(args[p].host_id_list, 1, "update_cluster_host", "get_info"))
    /\ idx' = [idx EXCEPT ![p] = 1]
    /\ Frame(p)

\* delete_cluster whose loop over update_cluster_host does not advance
dc_update_cluster_host_stuck(p) ==
    /\ At(p, "delete_cluster", "update_cluster_host")
    /\ Apply(p, update_cluster_host(db, args[p].cluster_id,
                    args[p].host_id_list[idx[p]], TRUE),
             "update_cluster_host")
    /\ UNCHANGED idx
    /\ Frame(p)

\* delete_cluster without its update_cluster_host(reinstall_os=True)
dc_update_cluster_host_skipped(p) ==
    /\ At(p, "delete_cluster", "update_cluster_host")
    /\ Goto(p, LoopOr(args[p].host_id_list, idx[p] + 1,
                      "update_cluster_host", "get_info"))
    /\ idx' = [idx EXCEPT ![p] = @ + 1]
    /\ UNCHANGED db
    /\ Frame(p)

dc_update_cluster_host(p) ==
    /\ At(p, "delete_cluster", "update_cluster_host")
    /\ Apply(p, update_cluster_host(db, args[p].cluster_id,
                    args[p].host_id_list[idx[p]], TRUE),
             LoopOr(args[p].host_id_list, idx[p] + 1,
                    "update_cluster_host", "get_info"))
    /\ idx' = [idx EXCEPT ![p] = IF pc'[p] = "exit" THEN @ ELSE @ + 1]
    /\ Frame(p)

\* delete_cluster with the clusterhost rows dropped before remove_hosts is called
dc_remove_hosts_after_delete(p) ==
    /\ At(p, "delete_cluster", "get_info")
    /\ IF get_info(db, args[p].cluster_id, args[p].host_id_list) # "none"
       THEN /\ Raise(p, get_info(db, args[p].cluster_id, args[p].host_id_list))
            /\ UNCHANGED <<calls, db>>
       ELSE /\ Goto(p, "remove_hosts")
            /\ db' = _remove_clusterhosts(db, args[p].cluster_id, args[p].host_id_list)
            /\ calls' = [calls EXCEPT ![p] = Append(@,
                    [cluster_id |-> args[p].cluster_id, hosts |-> args[p].host_id_list,
                     package_only |-> ~args[p].delete_underlying_host,
                     delete_cluster |-> TRUE, returned |-> FALSE])]
    /\ UNCHANGED <<lock, args, idx, handle, entry, first, ncalls, guard>>

dc_remove_hosts(p) ==
    /\ At(p, "delete_cluster", "get_info")
    /\ IssueRemove(p, args[p].cluster_id, args[p].host_id_list,
                   ~args[p].delete_underlying_host, TRUE)

dc_remove_hosts_returns(p) ==
    /\ At(p, "delete_cluster", "remove_hosts")
    /\ \E ok \in BOOLEAN :
        RemoveReturns(p, ok, "delete")
    /\ UNCHANGED idx

\* delete_cluster ending with cluster_api.del_cluster whatever hosts remain
dc_delete_with_cluster(p) ==
    /\ At(p, "delete_cluster", "delete")
    /\ LET d1 == _remove_clusterhosts(db, args[p].cluster_id, args[p].host_id_list)
           d2 == IF args[p].delete_underlying_host
                 THEN del_hosts(d1, args[p].host_id_list) ELSE d1
       IN  ApplyLast(p, del_cluster(d2, get_user_object(args[p].username),
                                    args[p].cluster_id))
    /\ UNCHANGED idx
    /\ Frame(p)

\* delete_cluster passing "not delete_underlying_host" to ActionHelper.delete_cluster
dc_delete_inverted(p) ==
    /\ At(p, "delete_cluster", "delete")
    /\ ApplyLast(p, ActionHelper_delete_cluster(db, args[p].cluster_id,
                    args[p].host_id_list, get_user_object(args[p].username),
                    ~args[p].delete_underlying_host))
    /\ UNCHANGED idx
    /\ Frame(p)

dc_delete(p) ==
    /\ At(p, "delete_cluster", "delete")
    /\ ApplyLast(p, ActionHelper_delete_cluster(db, args[p].cluster_id,
                    args[p].host_id_list, get_user_object(args[p].username),
                    args[p].delete_underlying_host))
    /\ UNCHANGED idx
    /\ Frame(p)

\* ---------------------------------------------------- delete_cluster_host
dch_remove_hosts(p) ==
    /\ At(p, "delete_cluster_host", "get_info")
    /\ IssueRemove(p, args[p].cluster_id, <<args[p].host_id>>,
                   ~args[p].delete_underlying_host, FALSE)

\* delete_cluster_host that swallows the exception of remove_hosts
dch_remove_hosts_swallowed(p) ==
    /\ At(p, "delete_cluster_host", "remove_hosts")
    /\ \E ok \in BOOLEAN :
        /\ calls' = IF ok THEN [calls EXCEPT ![p][Len(calls[p])].returned = TRUE]
                   ELSE calls
        /\ Goto(p, "delete")
    /\ UNCHANGED <<db, lock, args, handle, entry, first, ncalls, idx, guard>>

dch_remove_hosts_returns(p) ==
    /\ At(p, "delete_cluster_host", "remove_hosts")
    /\ \E ok \in BOOLEAN :
        RemoveReturns(p, ok, "delete")
    /\ UNCHANGED idx

\* delete_cluster_host ending with the terminal deletion of delete_cluster
dch_delete_as_cluster(p) ==
    /\ At(p, "delete_cluster_host", "delete")
    /\ ApplyLast(p, ActionHelper_delete_cluster(db, args[p].cluster_id,
                    <<args[p].host_id>>, get_user_object(args[p].username),
                    args[p].delete_underlying_host))
    /\ UNCHANGED idx
    /\ Frame(p)

dch_delete(p) ==
    /\ At(p, "delete_cluster_host", "delete")
    /\ ApplyLast(p, ActionHelper_delete_cluster_host(db, args[p].cluster_id,
                    args[p].host_id, get_user_object(args[p].username),
                    args[p].delete_underlying_host))
    /\ UNCHANGED idx
    /\ Frame(p)

\* ------------------------------------------------------------ delete_host
dh_remove_hosts(p) ==
    /\ At(p, "delete_host", "get_info")
    /\ IssueRemove(p, args[p].cluster_id_list[idx[p]], <<args[p].host_id>>,
                   TRUE, FALSE)

\* delete_host that swallows the exception of remove_hosts and goes on
dh_remove_hosts_swallowed(p) ==
    /\ At(p, "delete_host", "remove_hosts")
    /\ \E ok \in BOOLEAN :
        /\ calls' = IF ok THEN [calls EXCEPT ![p][Len(calls[p])].returned = TRUE]
                   ELSE calls
        /\ Goto(p, LoopOr(args[p].cluster_id_list, idx[p] + 1, "get_info", "delete"))
    /\ idx' = [idx EXCEPT ![p] = @ + 1]
    /\ UNCHANGED <<db, lock, args, handle, entry, first, ncalls, guard>>

\* delete_host leaving its loop after the first remove_hosts call
dh_remove_hosts_returns_once(p) ==
    /\ At(p, "delete_host", "remove_hosts")
    /\ \E ok \in BOOLEAN :
        RemoveReturns(p, ok, "delete")
    /\ UNCHANGED idx

dh_remove_hosts_returns(p) ==
    /\ At(p, "delete_host", "remove_hosts")
    /\ \E ok \in BOOLEAN :
        RemoveReturns(p, ok,
                      LoopOr(args[p].cluster_id_list, idx[p] + 1, "get_info", "delete"))
    /\ idx' = [idx EXCEPT ![p] = IF pc'[p] = "exit" THEN @ ELSE @ + 1]

dh_delete(p) ==
    /\ At(p, "delete_host", "delete")
    /\ ApplyLast(p, ActionHelper_delete_host(db, args[p].host_id,
                    get_user_object(args[p].username)))
    /\ UNCHANGED idx
    /\ Frame(p)

\* ------------------------------------------------------------ the system
Next ==
    \E p \in Workers :
        \/ call_delete_cluster(p)
        \/ call_delete_cluster_host(p)
        \/ call_delete_host(p)
        \/ LockAcquire(p)
        \/ LockTimeout(p)
        \/ dc_update_cluster_host_state(p)
        \/ dc_update_host_state(p)
        \/ dc_update_cluster_state(p)
        \/ dc_update_cluster(p)
        \/ dc_update_cluster_host(p)
        \/ dc_remove_hosts(p)
        \/ dc_remove_hosts_returns(p)
        \/ dc_delete(p)
        \/ dch_remove_hosts(p)
        \/ dch_remove_hosts_returns(p)
        \/ dch_delete(p)
        \/ dh_remove_hosts(p)
        \/ dh_remove_hosts_returns(p)
        \/ dh_delete(p)
        \/ Exit(p)
        \/ Retry(p)

Spec == Init /\ [][Next]_vars

\* a step of worker p's own: of util.lock, of the body of its action, or out
\* of its with block (starting an action, or a retry, is its caller's step)
Step(p) ==
    \/ LockAcquire(p) \/ LockTimeout(p)
    \/ dc_update_cluster_host_state(p) \/ dc_update_host_state(p)
    \/ dc_update_cluster_state(p) \/ dc_update_cluster(p)
    \/ dc_update_cluster_host(p)
    \/ dc_remove_hosts(p) \/ dc_remove_hosts_returns(p) \/ dc_delete(p)
    \/ dch_remove_hosts(p) \/ dch_remove_hosts_returns(p) \/ dch_delete(p)
    \/ dh_remove_hosts(p) \/ dh_remove_hosts_returns(p) \/ dh_delete(p)
    \/ Exit(p)

\* every worker goes on running, acquire returns within its timeout, and every
\* remove_hosts call returns or raises in the end
LiveSpec ==
    /\ Spec
    /\ \A p \in Workers : WF_vars(Step(p))

\* acquire returns within its timeout, with the lock or with None, and a worker
\* that raised leaves its with block; remove_hosts may take arbitrarily long
FairSpec ==
    /\ Spec
    /\ \A p \in Workers : WF_vars(LockAcquire(p) \/ LockTimeout(p))
    /\ \A p \in Workers : WF_vars(Exit(p))

\* ------------------------------------- the Editability Guard on its own
\* a caller (a review flow or a destructive flow) is about to call
\* is_cluster_editable with arguments of its choice, while no action runs
InitGuard ==
    /\ \E s \in InitStates : db = InitDb(s[1], s[2])
    /\ guard \in GuardInputs
    /\ Idle

\* the call returns "True" or "False", or raises Forbidden; it assigns nothing
call_is_cluster_editable ==
    /\ guard.out = "none"
    /\ guard' = [guard EXCEPT !.out =
            is_cluster_editable(guard.cluster, guard.user,
                                guard.reinstall_distributed_system_set,
                                guard.exception_when_not_editable)]
    /\ UNCHANGED <<db, lock, pc, args, idx, handle, result, calls, entry, first, ncalls>>

NextGuard == call_is_cluster_editable

SpecGuard == InitGuard /\ [][NextGuard]_vars

\* ================================================================ claims
\* worker p is inside the with block, past the lock check
InCriticalSection(p) ==
    /\ pc[p] \notin {"idle", "lock"}
    /\ ~(pc[p] = "exit" /\ result[p] = "LockNotAcquired")

\* C1: at every instant at most one of the actions delete_cluster,
\* delete_cluster_host and delete_host is inside its critical section, and it
\* is the holder of lock 'serialized_action'; also while the holder is blocked
\* in remove_hosts.
C1_MutualExclusion ==
    \A p, q \in Workers :
        InCriticalSection(p) /\ InCriticalSection(q) => p = q /\ lock = p

\* the holder is blocked in remove_hosts and another worker's acquisition has
\* timed out meanwhile
C1_Witness ==
    \E p, q \in Workers :
        /\ pc[p] = "remove_hosts" /\ lock = p
        /\ pc[q] = "exit" /\ result[q] = "LockNotAcquired"

\* C2: the entity writes of two actions never interleave: every step that
\* changes the store is taken by the one worker inside its critical section,
\* while no other worker is inside its own, before or after the step.
C2_NoInterleaving ==
    [][db' # db =>
        \E p \in Workers :
            /\ InCriticalSection(p) /\ lock = p
            /\ \A q \in Workers \ {p} :
                ~InCriticalSection(q) /\ ~InCriticalSection(q)']_vars

\* a worker has written part of its action's changes while another action,
\* started concurrently, waits for the lock
C2_Witness ==
    \E p, q \in Workers :
        /\ p # q
        /\ InCriticalSection(p) /\ pc[p] # "exit"
        /\ entry[p].taken /\ db # entry[p].db
        /\ pc[q] = "lock"

\* C3: a worker that has left its with block, on whatever path, does not hold
\* the lock.
C3_LockReleased ==
    \A p \in Workers : pc[p] \in {"idle", "lock"} => lock # p

\* every call allowed has exited, the lock is free, and cluster c1 and its
\* hosts are left marked ERROR with their rows in place: an action exited on
\* an error path
C3_Witness ==
    /\ \A p \in Workers : pc[p] = "idle"
    /\ ncalls = MaxCalls
    /\ lock = 0
    /\ db.cluster["c1"].exists /\ db.cluster["c1"].state = "ERROR"
    /\ db.cluster["c1"].reinstall_distributed_system
    /\ \A h \in {"h1", "h2"} :
        /\ db.clusterhost[<<"c1", h>>].exists
        /\ db.clusterhost[<<"c1", h>>].state = "ERROR"
        /\ db.host[h].state = "ERROR" /\ db.host[h].reinstall_os

\* C4: when util.lock yields no handle the action raises at once: the worker
\* goes straight to the exit with 'failed to acquire lock', then returns to
\* its caller; it does not wait again, writes nothing to the store and issues
\* no remove_hosts call.
C4_NoEffectWithoutLock ==
    [][\A p \in Workers :
        /\ (pc[p] = "lock" /\ pc'[p] # "lock" /\ ~handle'[p]) =>
                /\ pc'[p] = "exit" /\ result'[p] = "LockNotAcquired"
                /\ db' = db /\ calls'[p] = <<>>
        /\ (pc[p] = "exit" /\ result[p] = "LockNotAcquired" /\ pc'[p] # "exit") =>
                /\ pc'[p] = "idle"
                /\ db' = db /\ calls'[p] = <<>> /\ lock' = lock]_vars

C4_Witness ==
    \E p \in Workers :
        /\ pc[p] = "exit" /\ result[p] = "LockNotAcquired"
        /\ ~handle[p] /\ calls[p] = <<>> /\ lock \notin {0, p}

\* worker p is leaving the with block of action kind with result r
Exits(p, kind, r) == pc[p] = "exit" /\ args[p].kind = kind /\ result[p] = r

\* C5 (as claimed): an action rejected by the Editability Guard has mutated
\* nothing: the store is what it was when the action entered its body.
C5_NoMutationWhenNotEditable ==
    \A p \in Workers :
        pc[p] = "exit" /\ result[p] = "NotEditable" => db = entry[p].db

\* C6: when remove_hosts fails in delete_cluster(cluster_id, host_ids), the
\* cluster is ERROR with reinstall_distributed_system set, every listed host
\* is ERROR with reinstall_os set, and every row that was there is still there.
C6_ErrorStateAfterBackendFailure ==
    \A p \in Workers :
        Exits(p, "delete_cluster", "BackendFailure") =>
            LET c == args[p].cluster_id
                before == entry[p].db
            IN  /\ db.cluster[c].exists /\ db.cluster[c].state = "ERROR"
                /\ db.cluster[c].reinstall_distributed_system
                /\ \A h \in Range(args[p].host_id_list) :
                    /\ db.host[h].exists /\ db.host[h].state = "ERROR"
                    /\ db.host[h].reinstall_os
                    /\ db.clusterhost[<<c, h>>].exists
                /\ \A x \in Clusters : before.cluster[x].exists => db.cluster[x].exists
                /\ \A h \in Hosts : before.host[h].exists => db.host[h].exists
                /\ \A ch \in Clusters \X Hosts :
                    before.clusterhost[ch].exists => db.clusterhost[ch].exists

\* delete_cluster over two hosts that were not in ERROR has been failed by
\* the backend
C6_Witness ==
    \E p \in Workers :
        /\ Exits(p, "delete_cluster", "BackendFailure")
        /\ Len(args[p].host_id_list) = 2
        /\ \A h \in Range(args[p].host_id_list) : entry[p].db.host[h].state # "ERROR"
        /\ ~entry[p].db.cluster[args[p].cluster_id].reinstall_distributed_system

\* the store a delete_cluster(a) that meets no error leaves, from store S
SuccessState(S, a) ==
    LET c == a.cluster_id
        listed == Range(a.host_id_list)
    IN  [cluster |-> [x \in Clusters |->
            IF x # c THEN S.cluster[x]
            ELSE IF HostsOf(S, c) \subseteq listed THEN NoCluster
            ELSE [S.cluster[c] EXCEPT !.state = "ERROR",
                                      !.reinstall_distributed_system = TRUE]],
         host |-> [h \in Hosts |->
            IF h \notin listed THEN S.host[h]
            ELSE IF a.delete_underlying_host THEN NoHost
            ELSE [S.host[h] EXCEPT !.state = "ERROR", !.reinstall_os = TRUE]],
         clusterhost |-> [ch \in Clusters \X Hosts |->
            IF ch[1] = c /\ ch[2] \in listed THEN NoClusterHost
            ELSE S.clusterhost[ch]]]

\* C7: a delete_cluster called again with the same arguments, whose body runs
\* (it obtained the lock) on the store the failed call left, succeeds unless
\* the backend fails again, and leaves the store that a call succeeding at the
\* first attempt leaves; and that store is what every delete_cluster
\* succeeding at its first attempt does leave.
C7_IdempotentRetry ==
    \A p \in Workers :
        /\ (/\ pc[p] = "exit" /\ first[p].taken /\ entry[p].taken
            /\ result[p] # "BackendFailure") =>
                /\ result[p] = "ok"
                /\ db = SuccessState(first[p].before, args[p])
        /\ (Exits(p, "delete_cluster", "ok") /\ ~first[p].taken) =>
                db = SuccessState(entry[p].db, args[p])

\* the retry of a failed delete_cluster over hosts has succeeded
C7_Witness ==
    \E p \in Workers :
        /\ Exits(p, "delete_cluster", "ok")
        /\ first[p].taken
        /\ args[p].host_id_list # <<>>
        /\ first[p].before # entry[p].db

\* C8: after a successful delete_cluster(cluster_id, host_ids) no ClusterHost
\* row (cluster_id, h) remains for h in host_ids, and the Cluster row is
\* absent exactly when no host remains associated with the cluster.
C8_RowsAfterSuccess ==
    \A p \in Workers :
        Exits(p, "delete_cluster", "ok") =>
            LET c == args[p].cluster_id
            IN  /\ \A h \in Range(args[p].host_id_list) :
                    ~db.clusterhost[<<c, h>>].exists
                /\ ~db.cluster[c].exists <=> HostsOf(db, c) = {}

\* a delete_cluster over two hosts has succeeded and dropped the cluster
C8_Witness ==
    \E p \in Workers :
        /\ Exits(p, "delete_cluster", "ok")
        /\ Len(args[p].host_id_list) = 2
        /\ ~db.cluster[args[p].cluster_id].exists

\* a delete_cluster over one host of two has succeeded and kept the cluster
C8_WitnessKept ==
    \E p \in Workers :
        /\ Exits(p, "delete_cluster", "ok")
        /\ Len(args[p].host_id_list) = 1
        /\ db.cluster[args[p].cluster_id].exists

\* C9: after a successful delete_cluster over all the hosts of a cluster the
\* listed Host rows are present iff delete_underlying_host is false, and the
\* ClusterHost rows and the Cluster row are absent.
C9_UnderlyingHosts ==
    \A p \in Workers :
        (Exits(p, "delete_cluster", "ok")
            /\ HostsOf(entry[p].db, args[p].cluster_id)
                    = Range(args[p].host_id_list)) =>
            LET c == args[p].cluster_id
            IN  /\ \A h \in Range(args[p].host_id_list) :
                    /\ db.host[h].exists <=> ~args[p].delete_underlying_host
                    /\ ~db.clusterhost[<<c, h>>].exists
                /\ HostsOf(db, c) = {}
                /\ ~db.cluster[c].exists

\* delete_cluster(c1, [h1, h2], delete_underlying_host=False) has succeeded
C9_Witness ==
    \E p \in Workers :
        /\ Exits(p, "delete_cluster", "ok")
        /\ args[p].cluster_id = "c1" /\ args[p].host_id_list = <<"h1", "h2">>
        /\ ~args[p].delete_underlying_host
        /\ db.host["h1"].exists /\ db.host["h2"].exists

HostsInError(d, hl) ==
    \A h \in Range(hl) : ~d.host[h].exists \/ d.host[h].state = "ERROR"

\* the delete_cluster with arguments a that entered on store e has moved its
\* cluster to ERROR in store d, with a listed host not in ERROR
ClusterErrorAlone(a, e, d) ==
    /\ a.kind = "delete_cluster" /\ e.taken
    /\ e.db.cluster[a.cluster_id].state # "ERROR"
    /\ d.cluster[a.cluster_id].exists
    /\ d.cluster[a.cluster_id].state = "ERROR"
    /\ ~HostsInError(d, a.host_id_list)

\* C11: a cluster's state changes to ERROR only in a step of a delete_cluster
\* on that cluster that holds the lock and has set every listed host to ERROR;
\* and in no state up to the release of the lock has a delete_cluster moved
\* its cluster to ERROR while a listed host is in another state.
C11_ClusterErrorWithHosts ==
    [][/\ \A c \in Clusters :
            (/\ db.cluster[c].state # "ERROR"
             /\ db'.cluster[c].exists /\ db'.cluster[c].state = "ERROR") =>
                \E p \in Workers :
                    /\ lock = p /\ args[p].kind = "delete_cluster"
                    /\ args[p].cluster_id = c
                    /\ HostsInError(db', args[p].host_id_list)
       /\ \A p \in Workers : ~ClusterErrorAlone(args'[p], entry'[p], db')]_vars

\* a delete_cluster over hosts that were not in ERROR is leaving on an error
\* of the guard, its cluster moved to ERROR
C11_Witness ==
    \E p \in Workers :
        /\ Exits(p, "delete_cluster", "NotEditable")
        /\ args[p].host_id_list # <<>>
        /\ entry[p].db.cluster[args[p].cluster_id].state # "ERROR"
        /\ db.cluster[args[p].cluster_id].state = "ERROR"
        /\ \A h \in Range(args[p].host_id_list) :
                entry[p].db.host[h].state # "ERROR" /\ db.host[h].state = "ERROR"

\* the delete_cluster with arguments a that entered on store e has set a
\* listed host to ERROR in store d, its ClusterHost row not being in ERROR
HostErrorAlone(a, e, d) ==
    /\ a.kind = "delete_cluster" /\ e.taken
    /\ \E h \in Range(a.host_id_list) :
        /\ e.db.host[h].state # "ERROR"
        /\ d.host[h].exists /\ d.host[h].state = "ERROR"
        /\ d.clusterhost[<<a.cluster_id, h>>].exists
        /\ d.clusterhost[<<a.cluster_id, h>>].state # "ERROR"

\* C12: in delete_cluster the Host state of a listed host is written only
\* once its ClusterHost state is ERROR, and the Cluster state is written only
\* once every listed ClusterHost and Host is ERROR; so in no state has this
\* action set a listed Host to ERROR while its ClusterHost is in another state.
C12_WriteOrder ==
    [][\A p \in Workers :
        /\ (At(p, "delete_cluster", "update_host_state") /\ pc'[p] # pc[p]) =>
                LET ch == <<args[p].cluster_id, args[p].host_id_list[idx[p]]>>
                IN  db.clusterhost[ch].exists /\ db.clusterhost[ch].state = "ERROR"
        /\ (At(p, "delete_cluster", "update_cluster_state") /\ pc'[p] # pc[p]) =>
                \A h \in Range(args[p].host_id_list) :
                    /\ db.clusterhost[<<args[p].cluster_id, h>>].state = "ERROR"
                    /\ db.host[h].state = "ERROR"
        /\ \A h \in Hosts :
            (/\ lock = p /\ db.host[h].state # "ERROR"
             /\ db'.host[h].exists /\ db'.host[h].state = "ERROR") =>
                /\ At(p, "delete_cluster", "update_host_state")
                /\ h = args[p].host_id_list[idx[p]]
        /\ ~HostErrorAlone(args'[p], entry'[p], db')]_vars

\* a delete_cluster has set both hosts of its list, neither in ERROR before,
\* and is about to set its cluster's state
C12_Witness ==
    \E p \in Workers :
        /\ At(p, "delete_cluster", "update_cluster_state")
        /\ Len(args[p].host_id_list) = 2
        /\ \A h \in Range(args[p].host_id_list) :
                entry[p].db.host[h].state # "ERROR" /\ db.host[h].state = "ERROR"
        /\ db.cluster[args[p].cluster_id].state # "ERROR"

\* C13: the remove_hosts calls of a delete_host(host_id, cluster_ids) are, in
\* order, one per cluster of cluster_ids, each for that host alone with
\* package_only = true and delete_cluster = false; the action reaches its
\* final deletion, and changes the store, only with one call issued and
\* returned for every cluster of the list.
C13_DeleteHostCalls ==
    \A p \in Workers :
        (args[p].kind = "delete_host" /\ entry[p].taken) =>
            LET a == args[p]
                all == /\ Len(calls[p]) = Len(a.cluster_id_list)
                       /\ \A i \in 1..Len(calls[p]) : calls[p][i].returned
            IN  /\ Len(calls[p]) <= Len(a.cluster_id_list)
                /\ \A i \in 1..Len(calls[p]) :
                    /\ calls[p][i].cluster_id = a.cluster_id_list[i]
                    /\ calls[p][i].hosts = <<a.host_id>>
                    /\ calls[p][i].package_only
                    /\ ~calls[p][i].delete_cluster
                /\ (pc[p] = "delete" \/ result[p] = "ok") => all
                /\ db # entry[p].db =>
                    /\ Exits(p, "delete_host", "ok") /\ all
                    /\ db = del_hosts(entry[p].db, <<a.host_id>>)

\* delete_host of the host shared by clusters c1 and c2 has succeeded after
\* two calls
C13_Witness ==
    \E p \in Workers :
        /\ Exits(p, "delete_host", "ok")
        /\ args[p].cluster_id_list = <<"c1", "c2">>
        /\ Len(calls[p]) = 2
        /\ entry[p].db.host[args[p].host_id].exists
        /\ ~db.host[args[p].host_id].exists

\* C14: a delete_cluster_host(cluster_id, host_id) leaves every cluster row,
\* every other host row and every other ClusterHost row as they were at its
\* entry (so it sets no cluster to ERROR), and its own host row too unless
\* delete_underlying_host; it issues at most one remove_hosts call, for that
\* host alone with delete_cluster = false, and on success has dropped exactly
\* the association (and the host if delete_underlying_host) after that call
\* returned.
C14_SingleHostFrame ==
    \A p \in Workers :
        (args[p].kind = "delete_cluster_host" /\ entry[p].taken) =>
            LET a == args[p]
                e == entry[p].db
            IN  /\ db.cluster = e.cluster
                /\ \A h \in Hosts \ {a.host_id} : db.host[h] = e.host[h]
                /\ \A ch \in (Clusters \X Hosts) \ {<<a.cluster_id, a.host_id>>} :
                        db.clusterhost[ch] = e.clusterhost[ch]
                /\ ~a.delete_underlying_host => db.host[a.host_id] = e.host[a.host_id]
                /\ Len(calls[p]) <= 1
                /\ \A i \in 1..Len(calls[p]) :
                    /\ calls[p][i].cluster_id = a.cluster_id
                    /\ calls[p][i].hosts = <<a.host_id>>
                    /\ calls[p][i].package_only = ~a.delete_underlying_host
                    /\ ~calls[p][i].delete_cluster
                /\ db # e => Exits(p, "delete_cluster_host", "ok")
                /\ Exits(p, "delete_cluster_host", "ok") =>
                    /\ Len(calls[p]) = 1 /\ calls[p][1].returned
                    /\ ~db.clusterhost[<<a.cluster_id, a.host_id>>].exists
                    /\ db.host[a.host_id].exists = ~a.delete_underlying_host

\* delete_cluster_host has removed one host of a cluster that is not in ERROR
\* and whose other host is still a member
C14_Witness ==
    \E p \in Workers :
        /\ Exits(p, "delete_cluster_host", "ok")
        /\ entry[p].db.clusterhost[<<args[p].cluster_id, args[p].host_id>>].exists
        /\ HostsOf(db, args[p].cluster_id) # {}
        /\ db.cluster[args[p].cluster_id].state # "ERROR"
        /\ args[p].delete_underlying_host

\* the decision table of the Editability Guard, as specified
EditableByTable(entity, principal, reinstall) ==
    IF reinstall /\ entity.state = "INSTALLING" THEN FALSE
    ELSE IF ~reinstall /\ entity.reinstall_distributed_system = FALSE THEN FALSE
    ELSE IF principal.is_admin = FALSE /\ principal.id # entity.creator_id THEN FALSE
    ELSE TRUE

\* C15: for every cluster state, flag value, creator, principal, intent and
\* mode, is_cluster_editable finds the cluster editable (returns True) exactly
\* when the decision table does.
C15_DecisionTable ==
    guard.out \notin {"idle", "none"} =>
        (guard.out = "True") =
            EditableByTable(guard.cluster, guard.user,
                            guard.reinstall_distributed_system_set)

\* a plain edit of an INSTALLING cluster whose flag is set, by its creator who
\* is no admin, was found editable
C15_Witness ==
    /\ guard.out = "True"
    /\ ~guard.reinstall_distributed_system_set
    /\ guard.cluster.state = "INSTALLING"
    /\ guard.cluster.reinstall_distributed_system
    /\ ~guard.user.is_admin

\* C16: a call of is_cluster_editable whose check fails raises Forbidden when
\* exception_when_not_editable is true and returns False when it is false,
\* never True; and the call changes neither its cluster or user nor the store.
C16_FailureModes ==
    [][(guard.out = "none" /\ guard'.out # "none") =>
        /\ guard'.cluster = guard.cluster /\ guard'.user = guard.user
        /\ db' = db
        /\ ~EditableByTable(guard.cluster, guard.user,
                            guard.reinstall_distributed_system_set) =>
                guard'.out = IF guard.exception_when_not_editable
                             THEN "Forbidden" ELSE "False"]_vars

\* the ownership check failed in the soft mode: the call returned False
C16_Witness ==
    /\ guard.out = "False"
    /\ ~guard.exception_when_not_editable
    /\ guard.reinstall_distributed_system_set
    /\ guard.cluster.state # "INSTALLING"
    /\ ~guard.user.is_admin /\ guard.cluster.creator_id # guard.user.id

\* the requester may mutate an entity with this flag value and creator
MayMutate(flag, creator_id, requester) ==
    flag \/ requester.is_admin \/ creator_id = requester.id

\* C17 (as claimed): a destructive action changes a cluster row only if its
\* reinstall_distributed_system is true, and a host row only if its
\* reinstall_os is true, unless its requester is an admin or the row's creator.
C17_MutationOnlyIfFlagged ==
    [][\A p \in Workers :
        lock = p =>
            LET requester == get_user_object(args[p].username)
            IN  /\ \A c \in Clusters :
                    db'.cluster[c] # db.cluster[c] =>
                        MayMutate(db.cluster[c].reinstall_distributed_system,
                                  db.cluster[c].creator_id, requester)
                /\ \A h \in Hosts :
                    db'.host[h] # db.host[h] =>
                        MayMutate(db.host[h].reinstall_os,
                                  db.host[h].creator_id, requester)]_vars

\* a delete_cluster has moved its cluster from state sc, and a listed host
\* from state sh, to ERROR
MovedToError(sc, sh) ==
    \E p \in Workers :
        /\ At(p, "delete_cluster", "update_cluster")
        /\ entry[p].db.cluster[args[p].cluster_id].state = sc
        /\ db.cluster[args[p].cluster_id].state = "ERROR"
        /\ \E h \in Range(args[p].host_id_list) :
                entry[p].db.host[h].state = sh /\ db.host[h].state = "ERROR"

\* C18: the state writes of delete_cluster leave the host, and then the
\* cluster, in ERROR whatever state the row was in; and no step of
\* delete_cluster, delete_cluster_host or delete_host takes a cluster or host
\* row that is in ERROR to another state: the row stays in ERROR or is deleted.
C18_ErrorAbsorbing ==
    [][/\ \A c \in Clusters :
            (db.cluster[c].exists /\ db.cluster[c].state = "ERROR") =>
                ~db'.cluster[c].exists \/ db'.cluster[c].state = "ERROR"
       /\ \A h \in Hosts :
            (db.host[h].exists /\ db.host[h].state = "ERROR") =>
                ~db'.host[h].exists \/ db'.host[h].state = "ERROR"
       /\ \A p \in Workers :
            /\ (At(p, "delete_cluster", "update_cluster_state")
                    /\ pc'[p] = "update_cluster") =>
                    /\ db'.cluster[args[p].cluster_id].exists
                    /\ db'.cluster[args[p].cluster_id].state = "ERROR"
            /\ (At(p, "delete_cluster", "update_host_state")
                    /\ pc'[p] \notin {"update_host_state", "exit"}) =>
                    /\ db'.host[args[p].host_id_list[idx[p]]].exists
                    /\ db'.host[args[p].host_id_list[idx[p]]].state = "ERROR"]_vars

\* an INSTALLING cluster and an INSTALLING host of it have been moved to ERROR
C18_Witness == MovedToError("INSTALLING", "INSTALLING")

\* worker p has been yielded None by util.lock and has raised
LockRefused(p) == pc[p] = "exit" /\ result[p] = "LockNotAcquired" /\ ~handle[p]

\* C19: no worker waits in util.lock forever: its wait ends, and it ends either
\* with the lock held or with None yielded and 'failed to acquire lock' raised
\* (past its wait a worker is in one of the two cases); and a worker that
\* raised it does not stay there: the action is aborted.
C19_LockWaitEnds ==
    \A p \in Workers :
        /\ []<>(pc[p] # "lock")
        /\ []<>(~LockRefused(p))
        /\ [](pc[p] \notin {"idle", "lock"} =>
                    (lock = p /\ handle[p]) \/ LockRefused(p))

\* a worker waits for the lock while its holder is blocked in remove_hosts
C19_Witness ==
    \E p, q \in Workers :
        /\ pc[p] = "lock" /\ lock = q
        /\ pc[q] = "remove_hosts"

\* C20: a delete_cluster issues at most one remove_hosts call, and exactly one
\* when it gets as far as the backend (it waits for the call, goes on to the
\* terminal deletion, succeeds or is failed by the backend); the call is for
\* the listed hosts of its cluster with package_only = not
\* delete_underlying_host and delete_cluster = true; and when it is issued the
\* cluster is in ERROR with reinstall_distributed_system set and every listed
\* host is in ERROR with reinstall_os set.
C20_OneRemoveCall ==
    \A p \in Workers :
        (args[p].kind = "delete_cluster" /\ entry[p].taken) =>
            LET a == args[p]
            IN  /\ Len(calls[p]) <= 1
                /\ \A i \in 1..Len(calls[p]) :
                    /\ calls[p][i].cluster_id = a.cluster_id
                    /\ calls[p][i].hosts = a.host_id_list
                    /\ calls[p][i].package_only = ~a.delete_underlying_host
                    /\ calls[p][i].delete_cluster
                /\ Len(calls[p]) = 1 <=>
                        \/ pc[p] \in {"remove_hosts", "delete"}
                        \/ result[p] \in {"ok", "BackendFailure"}
                /\ pc[p] = "remove_hosts" =>
                    /\ db.cluster[a.cluster_id].exists
                    /\ db.cluster[a.cluster_id].state = "ERROR"
                    /\ db.cluster[a.cluster_id].reinstall_distributed_system
                    /\ \A h \in Range(a.host_id_list) :
                        /\ db.host[h].exists /\ db.host[h].state = "ERROR"
                        /\ db.host[h].reinstall_os

\* delete_cluster over two hosts, with the hosts themselves to be deleted,
\* waits for its remove_hosts call; nothing was in ERROR or flagged before
C20_Witness ==
    \E p \in Workers :
        /\ At(p, "delete_cluster", "remove_hosts")
        /\ Len(args[p].host_id_list) = 2
        /\ args[p].delete_underlying_host
        /\ ~calls[p][1].package_only
        /\ ~entry[p].db.cluster[args[p].cluster_id].reinstall_distributed_system
        /\ \A h \in Range(args[p].host_id_list) :
                /\ entry[p].db.host[h].state # "ERROR"
                /\ ~entry[p].db.host[h].reinstall_os

\* every cluster, host and ClusterHost row of store e is still in store d
NoRowDeleted(e, d) ==
    /\ \A c \in Clusters : e.cluster[c].exists => d.cluster[c].exists
    /\ \A h \in Hosts : e.host[h].exists => d.host[h].exists
    /\ \A ch \in Clusters \X Hosts : e.clusterhost[ch].exists => d.clusterhost[ch].exists

\* a remove_hosts call in the list cs has not returned
CallPending(cs) == \E i \in 1..Len(cs) : ~cs[i].returned

\* C21: in each of the three actions a remove_hosts call that raises ends the
\* action with the backend's failure and the store as it was; an action of
\* which a call has not returned is waiting for it or is leaving with that
\* failure, every row of its entry still there; and a row is deleted only by
\* an action all of whose calls have returned.
C21_BackendFailurePropagates ==
    [][\A p \in Workers :
        /\ (pc[p] = "remove_hosts" /\ pc'[p] = "exit") =>
                result'[p] = "BackendFailure" /\ db' = db
        /\ CallPending(calls'[p]) =>
                /\ pc'[p] \in {"remove_hosts", "exit"}
                /\ pc'[p] = "exit" => result'[p] = "BackendFailure"
                /\ NoRowDeleted(entry'[p].db, db')
        /\ (lock = p /\ ~NoRowDeleted(db, db')) =>
                pc[p] = "delete" /\ ~CallPending(calls[p])]_vars

\* the second remove_hosts call of a delete_host has failed: the action leaves
\* with the failure and its host row in place
C21_Witness ==
    \E p \in Workers :
        /\ Exits(p, "delete_host", "BackendFailure")
        /\ Len(calls[p]) = 2
        /\ calls[p][1].returned /\ ~calls[p][2].returned
        /\ db.host[args[p].host_id].exists

\* C22: with every worker running and every remove_hosts call returning or
\* raising in the end, each invocation of delete_cluster, delete_cluster_host
\* or delete_host that has started reaches the exit of its with block, with
\* success or an error, and its worker is back at its caller again and again;
\* and no worker of a started invocation is ever without a step it can take.
C22_Terminates ==
    \A p \in Workers :
        /\ (pc[p] \notin {"idle", "exit"}) ~> (pc[p] = "exit")
        /\ []<>(pc[p] = "idle")
        /\ [](pc[p] # "idle" => ENABLED Step(p))

\* every call allowed has been made: one worker waits for the lock that
\* another, about to do its terminal deletion, holds
C22_Witness ==
    \E p, q \in Workers :
        /\ ncalls = MaxCalls
        /\ pc[p] = "lock" /\ lock = q
        /\ pc[q] = "delete"

\* the positions of list hl whose host row, or whose association with cluster
\* c, is not in store e
MissingAt(e, c, hl) ==
    {i \in 1..Len(hl) :
        ~e.host[hl[i]].exists \/ ~e.clusterhost[<<c, hl[i]>>].exists}

\* C23: a delete_cluster that entered with the k-th listed host (the first
\* such) or its association missing does not get past its state-marking
\* loop: it is in the loop at a position up to k, or leaves with NotFound at
\* position k, the hosts before k and their associations set to ERROR; the
\* cluster row is as at entry, no remove_hosts call is issued, no row is
\* deleted and the hosts after k and those not listed are as at entry.
C23_NotFoundInMarkingLoop ==
    \A p \in Workers :
        (/\ args[p].kind = "delete_cluster" /\ entry[p].taken
         /\ MissingAt(entry[p].db, args[p].cluster_id, args[p].host_id_list) # {}) =>
            LET e == entry[p].db
                c == args[p].cluster_id
                hl == args[p].host_id_list
                k == CHOOSE i \in MissingAt(e, c, hl) :
                        \A j \in MissingAt(e, c, hl) : i <= j
            IN  /\ pc[p] \in {"update_cluster_host_state", "update_host_state", "exit"}
                /\ idx[p] <= k
                /\ db.cluster = e.cluster
                /\ calls[p] = <<>>
                /\ NoRowDeleted(e, db)
                /\ \A h \in Hosts \ {hl[i] : i \in 1..k} :
                        /\ db.host[h] = e.host[h]
                        /\ \A x \in Clusters : db.clusterhost[<<x, h>>] = e.clusterhost[<<x, h>>]
                /\ pc[p] = "exit" =>
                    /\ result[p] = "NotFound" /\ idx[p] = k
                    /\ \A i \in 1..(k - 1) :
                        /\ db.host[hl[i]].state = "ERROR"
                        /\ db.clusterhost[<<c, hl[i]>>].state = "ERROR"

\* delete_cluster over two hosts leaves with NotFound at the second, whose row
\* is missing: the first host has been moved to ERROR, the cluster has not
C23_Witness ==
    \E p \in Workers :
        /\ Exits(p, "delete_cluster", "NotFound")
        /\ idx[p] = 2 /\ calls[p] = <<>>
        /\ ~entry[p].db.host[args[p].host_id_list[2]].exists
        /\ entry[p].db.host[args[p].host_id_list[1]].state # "ERROR"
        /\ db.host[args[p].host_id_list[1]].state = "ERROR"
        /\ db.cluster[args[p].cluster_id].state # "ERROR"

\* C24: after a successful delete_cluster over some but not all of the hosts
\* of its cluster, the Cluster row is present, in state ERROR with
\* reinstall_distributed_system set, and every host that was not listed has
\* the row, state and reinstall_os it had when the action entered, and its
\* associations.
C24_PartialDelete ==
    \A p \in Workers :
        (/\ Exits(p, "delete_cluster", "ok")
         /\ Range(args[p].host_id_list) # HostsOf(entry[p].db, args[p].cluster_id)
         /\ Range(args[p].host_id_list) \subseteq
                HostsOf(entry[p].db, args[p].cluster_id)) =>
            LET c == args[p].cluster_id
                e == entry[p].db
            IN  /\ db.cluster[c].exists
                /\ db.cluster[c].state = "ERROR"
                /\ db.cluster[c].reinstall_distributed_system
                /\ \A h \in Hosts \ Range(args[p].host_id_list) :
                    /\ db.host[h] = e.host[h]
                    /\ \A x \in Clusters : db.clusterhost[<<x, h>>] = e.clusterhost[<<x, h>>]

\* delete_cluster over one of the two hosts of a cluster has succeeded: the
\* cluster, not in ERROR before, is; the other host still is not
C24_Witness ==
    \E p \in Workers :
        /\ Exits(p, "delete_cluster", "ok")
        /\ Len(args[p].host_id_list) = 1
        /\ entry[p].db.cluster[args[p].cluster_id].state # "ERROR"
        /\ db.cluster[args[p].cluster_id].state = "ERROR"
        /\ \E h \in HostsOf(db, args[p].cluster_id) :
                db.host[h].exists /\ db.host[h].state # "ERROR" /\ ~db.host[h].reinstall_os

====
